---- MODULE Spec2Model ----
(***************************************************************************)
(* Model of src/script.js: the energy dashboard's global state             *)
(* (window.currentYear, window.globalData, window.charts), the DOM state   *)
(* its handlers read and write (the source <select>, the detail-area       *)
(* buttons, the detail container, the stat figures) and its handlers       *)
(* (DOMContentLoaded, filterByYear, updateRankingTable, showRanking,       *)
(* showHeatmap, the datalabels formatters).                                *)
(*                                                                         *)
(* script.js is a classic script: the function declarations are hoisted    *)
(* to global bindings first and the window.X = function assignments then   *)
(* run top to bottom, so for a name bound several times the LAST           *)
(* ASSIGNMENT is the live one (updateRankingTable: line 423, showHeatmap:  *)
(* line 462), and an assignment beats a declaration of the same name       *)
(* wherever the declaration stands (populateRankingOptions: line 296 beats *)
(* the declaration of line 410).                                           *)
(*                                                                         *)
(* Cell values are natural numbers; the source name '태양광' is written      *)
(* "solar".                                                                *)
(***************************************************************************)
EXTENDS Integers, Sequences, FiniteSets

\* ------------------------------------------------------------- bounds
\* Largest generation value of a cell of the dataset.
MaxCell == 2
\* Largest number of data points and largest data point of a chart handed to
\* the datalabels formatter.
MaxSeries == 3
MaxValue == 2

\* ------------------------------------------------------------- constants
\* window.currentYear = 2023 (line 10).
InitialYear == 2023
\* The years of the dataset (keys of regional) and a year that has no entry.
Years == {2022, 2023}
YearInputs == Years \cup {2020}
\* 'solar' stands for '태양광' (line 420).
DefaultSource == "solar"
SourceNames == {"solar", "wind"}
\* r[source] of a record without that key (line 194).
Undefined == -1
\* The chart slots of window.charts.
Slots == {"regional", "mix", "share", "detail"}

\* ------------------------------------------------------------- datasets
Row(name, c) == [region |-> name, cells |-> c]

\* Orders of data.sources: the default source first, not first, absent.
SourceOrders == {<<"solar", "wind">>, <<"wind", "solar">>, <<"wind">>}

\* Region A: a record without the wind key, or a complete one.
ACells ==
    {[s \in {"solar"} |-> MaxCell],
     [s \in SourceNames |-> IF s = "wind" THEN 1 ELSE 0]}
\* Region B: all cells zero, or the larger total (the array is then unsorted).
BCells ==
    {[s \in SourceNames |-> 0],
     [s \in SourceNames |-> IF s = "wind" THEN MaxCell ELSE 1]}
RegionArrays == {<<Row("A", a), Row("B", b)>> : a \in ACells, b \in BCells}

\* The contents of dashboard_data.json / data.js.
\* The two years differ.
Datasets ==
    {d \in [sources : SourceOrders, regional : [Years -> RegionArrays],
            latest_year : Years] : d.regional[2022] # d.regional[2023]}

\* ------------------------------------------------------------- state
VARIABLES
    dataFile,       \* the dataset the page is served with
    phase,          \* position of the DOMContentLoaded handler
    globalData,     \* window.globalData: <<>> is null, <<d>> the dataset
    currentYear,    \* window.currentYear
    select,         \* #sourceSelect: its options and its value
    activeBtn,      \* which detail-area button has class 'active'
    stat,           \* #stat-year and #stat-total
    charts,         \* window.charts
    container,      \* #detail-view-container
    liveCount,      \* per slot, chart instances created and not destroyed
    maxLive,        \* per slot, the largest liveCount a handler went through
    yearlyRendered, \* renderYearlyCharts has run
    lastEvent,      \* the last handler run and whether it returned normally
    legend          \* a pie chart as its datalabels formatter sees it

vars == <<dataFile, phase, globalData, currentYear, select, activeBtn, stat,
          charts, container, liveCount, maxLive, yearlyRendered, lastEvent,
          legend>>

\* ------------------------------------------------------------- helpers
IsNull(ref) == Len(ref) = 0
Max2(a, b) == IF a >= b THEN a ELSE b

RECURSIVE SumSeq(_)
SumSeq(q) == IF Len(q) = 0 THEN 0 ELSE Head(q) + SumSeq(Tail(q))

\* r[s] || 0
Get(r, s) == IF s \in DOMAIN r.cells THEN r.cells[s] ELSE 0
\* r[s]
Raw(r, s) == IF s \in DOMAIN r.cells THEN r.cells[s] ELSE Undefined

\* Array.prototype.sort with the comparator (a, b) => key(b) - key(a), where
\* key[i] is the key of q[i]: stable, descending by key.
SortDesc(q, key) ==
    LET n == Len(q)
        pos(i) == 1 + Cardinality({j \in 1..n :
                        \/ key[j] > key[i]
                        \/ (key[j] = key[i] /\ j < i)})
    IN  [p \in 1..n |-> q[CHOOSE i \in 1..n : pos(i) = p]]

\* slice(0, 5)
Slice5(q) == IF Len(q) <= 5 THEN q ELSE SubSeq(q, 1, 5)

\* data.sources.reduce((acc, s) => acc + (r[s]||0), 0)
regionTotal(r, sources) == SumSeq([i \in 1..Len(sources) |-> Get(r, sources[i])])

\* regionalData.reduce((acc, r) => acc + regionTotal(r), 0)
totalGen(data, year) ==
    SumSeq([i \in 1..Len(data.regional[year]) |->
                regionTotal(data.regional[year][i], data.sources)])

\* ------------------------------------------------------------- formatter
\* let sum = 0; dataArr.map((data, i) => { if (getDataVisibility(i)) sum += data })
VisibleSum(dataArr, visible) ==
    SumSeq([i \in 1..Len(dataArr) |-> IF visible[i] THEN dataArr[i] ELSE 0])

\* (value*100 / sum).toFixed(1): the quotient to one decimal, in tenths; a
\* division by zero gives NaN (0/0) or Infinity.  A quotient exactly between
\* two tenths is exact in binary unless sum is a multiple of 2000, and toFixed
\* then prints the larger tenth: for the sums of the model (all below 2000)
\* rounding half up is the digit toFixed prints.
percentage(value, sum) ==
    IF sum = 0
    THEN [kind |-> IF value = 0 THEN "NaN" ELSE "Infinity", tenths |-> 0]
    ELSE [kind |-> "number", tenths |-> (2000 * value + sum) \div (2 * sum)]

\* percentage > 3 ? percentage + "%" : "": the string compared as a number
\* (NaN > 3 is false, Infinity > 3 is true).
formatter(value, dataArr, visible) ==
    LET p == percentage(value, VisibleSum(dataArr, visible))
        shown == \/ p.kind = "Infinity"
                 \/ (p.kind = "number" /\ p.tenths > 30)
    IN  [pct |-> p, text |-> IF shown THEN "pct%" ELSE ""]

\* The labels the datalabels plugin draws for a chart's data points.
DataLabels(dataArr, visible) ==
    [i \in 1..Len(dataArr) |-> formatter(dataArr[i], dataArr, visible)]

\* ------------------------------------------------------------- views
NoChart ==
    [kind |-> "none", year |-> 0, source |-> "", labels |-> <<>>, data |-> <<>>,
     visible |-> <<>>, datalabels |-> <<>>]

NoTable == [year |-> 0, maxVal |-> 0, rows |-> <<>>]

\* The detail container: what the page is served with, cleared
\* (innerHTML = ''), a canvas no chart was drawn on, a canvas with the ranking
\* chart, the heatmap table.
Container(kind, table) == [kind |-> kind, table |-> table]

AllVisible(q) == [i \in 1..Len(q) |-> TRUE]

\* new Chart(ctx, ...) stored in window.charts[slot]; the instance it replaces
\* was destroyed by the caller (if (window.charts[slot]) ...destroy()).
destroyNothing(s, slot) == s

destroyExisting(s, slot) ==
    IF s.charts[slot].kind = "chart"
    THEN [s EXCEPT !.liveCount[slot] = @ - 1]
    ELSE s

newChart(s, slot, chart) ==
    [s EXCEPT !.charts[slot] = chart,
              !.liveCount[slot] = @ + 1,
              !.maxLive[slot] = Max2(@, s.liveCount[slot] + 1)]

\* Array.prototype.sort sorts its receiver in place.  The receiver in
\* renderRegionalChart is the spread copy [...currentRegionalData], so the
\* dataset's own array is afterwards what it was before.
arrayAfterSortInPlace(arr, sorted) == sorted
arrayAfterSort(arr, sorted) == arr

\* renderRegionalChart(year), lines 174-209.
renderRegionalChart(s, year) ==
    LET data == s.globalData[1]
        s1 == destroyExisting(s, "regional")
        currentRegionalData == data.regional[year]
        sums == [i \in 1..Len(currentRegionalData) |->
                    regionTotal(currentRegionalData[i], data.sources)]
        sorted == SortDesc(currentRegionalData, sums)
        sortedRegions == Slice5(sorted)
        datasets == [k \in 1..Len(data.sources) |->
                        [i \in 1..Len(sortedRegions) |->
                            Raw(sortedRegions[i], data.sources[k])]]
        chart == [kind |-> "chart", year |-> year, source |-> "",
                  labels |-> [i \in 1..Len(sortedRegions) |-> sortedRegions[i].region],
                  data |-> datasets, visible |-> <<>>, datalabels |-> <<>>]
        s2 == [s1 EXCEPT !.globalData[1].regional[year] =
                            arrayAfterSort(currentRegionalData, sorted)]
    IN  newChart(s2, "regional", chart)

\* The per-source totals without the || 0 of line 316.
sourceTotalsNoDefault(data, year) ==
    [k \in 1..Len(data.sources) |->
        SumSeq([i \in 1..Len(data.regional[year]) |->
                    Raw(data.regional[year][i], data.sources[k])])]

\* The per-source totals of the mix chart, lines 314-317.
sourceTotals(data, year) ==
    [k \in 1..Len(data.sources) |->
        SumSeq([i \in 1..Len(data.regional[year]) |->
                    Get(data.regional[year][i], data.sources[k])])]

\* renderMixChart(year), lines 309-352.
renderMixChart(s, year) ==
    LET data == s.globalData[1]
        s1 == destroyExisting(s, "mix")
        totals == sourceTotals(data, year)
        chart == [kind |-> "chart", year |-> year, source |-> "",
                  labels |-> data.sources, data |-> totals,
                  visible |-> AllVisible(totals),
                  datalabels |-> DataLabels(totals, AllVisible(totals))]
    IN  newChart(s1, "mix", chart)

\* The region totals of the share chart, sorted, lines 360-368.
regionTotals(data, year) ==
    LET mapped == [i \in 1..Len(data.regional[year]) |->
                    [region |-> data.regional[year][i].region,
                     total |-> regionTotal(data.regional[year][i], data.sources)]]
    IN  SortDesc(mapped, [i \in 1..Len(mapped) |-> mapped[i].total])

\* renderRegionalShareChart(year), lines 355-406.
renderRegionalShareChart(s, year) ==
    LET data == s.globalData[1]
        s1 == destroyExisting(s, "share")
        rt == regionTotals(data, year)
        totals == [i \in 1..Len(rt) |-> rt[i].total]
        chart == [kind |-> "chart", year |-> year, source |-> "",
                  labels |-> [i \in 1..Len(rt) |-> rt[i].region], data |-> totals,
                  visible |-> AllVisible(totals),
                  datalabels |-> DataLabels(totals, AllVisible(totals))]
    IN  newChart(s1, "share", chart)

\* ------------------------------------------------------------- handlers
\* A handler is a function of the page state s (the variables as a record plus
\* threw: the handler ended by an uncaught TypeError).  What it wrote before
\* the throw stays written.
Throw(s) == [s EXCEPT !.threw = TRUE]

\* The ranking series of the detail chart, lines 436-439.
rankingData(data, year, source) ==
    LET mapped == [i \in 1..Len(data.regional[year]) |->
                    [region |-> data.regional[year][i].region,
                     val |-> Get(data.regional[year][i], source)]]
    IN  SortDesc(mapped, [i \in 1..Len(mapped) |-> mapped[i].val])

\* window.updateRankingTable, lines 423-460 (the live definition).
updateRankingTable(s) ==
    LET s1 == [s EXCEPT !.activeBtn = "none",
                        !.container = Container("blankCanvas", NoTable)]
        source == s.select.value
    IN  IF IsNull(s.globalData) THEN Throw(s1)                     \* line 434
        ELSE IF s.currentYear \notin DOMAIN s.globalData[1].regional
        THEN Throw(s1)                                             \* line 436
        ELSE
            LET rd == rankingData(s.globalData[1], s.currentYear, source)
                s2 == destroyExisting(s1, "detail")
                chart == [kind |-> "chart", year |-> s.currentYear, source |-> source,
                          labels |-> [i \in 1..Len(rd) |-> rd[i].region],
                          data |-> [i \in 1..Len(rd) |-> rd[i].val],
                          visible |-> <<>>, datalabels |-> <<>>]
                s3 == newChart(s2, "detail", chart)
            IN  [s3 EXCEPT !.container = Container("chartCanvas", NoTable)]

\* A maximum kept from the heatmap on display instead of a fresh 0.
maxValStale == IF container.kind = "heatmap" THEN container.table.maxVal ELSE 0

\* let maxVal = 0, line 489.
maxValStart == 0

\* The scale maximum of the heatmap, lines 489-492:
\* if ((r[s]||0) > maxVal) maxVal = r[s].
RECURSIVE maxValFrom(_, _)
maxValFrom(q, m) ==
    IF Len(q) = 0 THEN m
    ELSE maxValFrom(Tail(q), IF Head(q) > m THEN Head(q) ELSE m)

RECURSIVE Flatten(_)
Flatten(qq) == IF Len(qq) = 0 THEN <<>> ELSE Head(qq) \o Flatten(Tail(qq))

\* The cells in the order the two forEach loops visit them.
gridCells(data, year) ==
    Flatten([i \in 1..Len(data.regional[year]) |->
                [k \in 1..Len(data.sources) |->
                    Get(data.regional[year][i], data.sources[k])]])

heatmapMaxVal(data, year) == maxValFrom(gridCells(data, year), maxValStart)

\* A cell of the heatmap, lines 498-508: '-' and no colour for 0, otherwise
\* the intensity 0.1 + (val / maxVal) * 0.9, kept as the fraction num/den.
heatmapCell(val, maxVal) ==
    IF val > 0
    THEN [val |-> val, coloured |-> TRUE, num |-> maxVal + 9 * val, den |-> 10 * maxVal]
    ELSE [val |-> val, coloured |-> FALSE, num |-> 0, den |-> 1]

heatmapTable(data, year) ==
    LET maxVal == heatmapMaxVal(data, year)
    IN  [year |-> year, maxVal |-> maxVal,
         rows |-> [i \in 1..Len(data.regional[year]) |->
                    [region |-> data.regional[year][i].region,
                     cells |-> [k \in 1..Len(data.sources) |->
                        heatmapCell(Get(data.regional[year][i], data.sources[k]),
                                    maxVal)]]]]

\* window.showHeatmap(btn), lines 462-515 (the live definition); every caller
\* passes the heatmap button.
showHeatmap(s) ==
    LET s1 == [s EXCEPT !.activeBtn = "heatmap",
                        !.container = Container("empty", NoTable)]
    IN  IF IsNull(s.globalData) THEN Throw(s1)                     \* line 472
        ELSE IF s.currentYear \notin DOMAIN s.globalData[1].regional
        THEN Throw(s1)                                             \* line 490
        ELSE [s1 EXCEPT !.container =
                Container("heatmap", heatmapTable(s.globalData[1], s.currentYear))]

\* window.showRanking(btn), lines 248-253: setActiveButton, then the table.
showRanking(s) == updateRankingTable([s EXCEPT !.activeBtn = "ranking"])

\* Step 4 without the test of the heatmap button; step 4 leaving a heatmap on
\* display as it is.
updateDetailViewAlwaysRanking(s) == updateRankingTable(s)
updateDetailViewSkipHeatmap(s) ==
    IF s.activeBtn = "heatmap" THEN s ELSE updateRankingTable(s)

\* Step 4 of filterByYear, lines 81-86.
updateDetailView(s) ==
    IF s.activeBtn = "heatmap" THEN showHeatmap(s) ELSE updateRankingTable(s)

\* window.filterByYear(year), lines 47-87.
filterByYear(s, year) ==
    LET s1 == [s EXCEPT !.currentYear = year, !.stat.year = year]
    IN  IF IsNull(s.globalData) THEN Throw(s1)                     \* line 68
        ELSE IF year \notin DOMAIN s.globalData[1].regional
        THEN Throw(s1)                                             \* line 69
        ELSE
            LET s2 == [s1 EXCEPT !.stat.total = totalGen(s.globalData[1], year)]
                s3 == renderRegionalChart(s2, year)
                s4 == renderMixChart(s3, year)
                s5 == renderRegionalShareChart(s4, year)
            IN  updateDetailView(s5)

\* Appending <option>s to a <select>: the first option of a select that has
\* none selected becomes its value.
appendOptions(sel, sources) ==
    [options |-> sel.options \o sources,
     value |-> IF sel.value = "" /\ Len(sel.options \o sources) > 0
               THEN (sel.options \o sources)[1] ELSE sel.value]

\* window.populateRankingOptions, lines 296-304: the options and nothing else.
windowPopulateRankingOptions(s) ==
    [s EXCEPT !.select = appendOptions(s.select, s.globalData[1].sources)]

\* function populateRankingOptions, lines 410-421: the options, then the
\* default source if the dataset has it.
declaredPopulateRankingOptions(s) ==
    LET sel == appendOptions(s.select, s.globalData[1].sources)
    IN  [s EXCEPT !.select =
            IF \E i \in 1..Len(s.globalData[1].sources) :
                    s.globalData[1].sources[i] = DefaultSource
            THEN [sel EXCEPT !.value = DefaultSource] ELSE sel]

\* What the call populateRankingOptions() of line 34 reaches: the global
\* binding, which the assignment of line 296 has replaced.
populateRankingOptions(s) == windowPopulateRankingOptions(s)

\* The DOMContentLoaded handler from `if (!data)` on, lines 28-38.
initWith(s, data) ==
    LET s1 == [s EXCEPT !.globalData = <<data>>, !.currentYear = data.latest_year]
        s2 == populateRankingOptions(s1)
        s3 == filterByYear(s2, s2.currentYear)
    IN  IF s3.threw THEN s3 ELSE [s3 EXCEPT !.yearlyRendered = TRUE]

\* ------------------------------------------------------------- actions
\* No pie chart under the formatter's eyes.
NoLegend == [dataArr |-> <<>>, visible |-> <<>>, labels |-> <<>>]

State ==
    [globalData |-> globalData, currentYear |-> currentYear, select |-> select,
     activeBtn |-> activeBtn, stat |-> stat, charts |-> charts,
     container |-> container, liveCount |-> liveCount, maxLive |-> maxLive,
     yearlyRendered |-> yearlyRendered, threw |-> FALSE]

Event(op, ok) == [op |-> op, ok |-> ok]

\* The page after a handler: r is the state the handler left.
Apply(r, op) ==
    /\ globalData' = r.globalData
    /\ currentYear' = r.currentYear
    /\ select' = r.select
    /\ activeBtn' = r.activeBtn
    /\ stat' = r.stat
    /\ charts' = r.charts
    /\ container' = r.container
    /\ liveCount' = r.liveCount
    /\ maxLive' = r.maxLive
    /\ yearlyRendered' = r.yearlyRendered
    /\ lastEvent' = Event(op, ~r.threw)
    /\ UNCHANGED legend

\* The page as script.js leaves it when it has run (lines 10-12): no dataset,
\* no chart, the ranking button active, the select without options.
Init ==
    /\ dataFile \in Datasets
    /\ phase = "start"
    /\ globalData = <<>>
    /\ currentYear = InitialYear
    /\ select = [options |-> <<>>, value |-> ""]
    /\ activeBtn = "ranking"
    /\ stat = [year |-> 0, total |-> Undefined]
    /\ charts = [slot \in Slots |-> NoChart]
    /\ container = Container("initial", NoTable)
    /\ liveCount = [slot \in Slots |-> 0]
    /\ maxLive = [slot \in Slots |-> 0]
    /\ yearlyRendered = FALSE
    /\ lastEvent = Event("script", TRUE)
    /\ legend = NoLegend

\* data.js, included after script.js, sets window.globalData (lines 15-20).
DataJsLoaded ==
    /\ phase = "start"
    /\ IsNull(globalData)
    /\ globalData' = <<dataFile>>
    /\ lastEvent' = Event("data.js", TRUE)
    /\ UNCHANGED <<dataFile, phase, currentYear, select, activeBtn, stat, charts,
                   container, liveCount, maxLive, yearlyRendered, legend>>

\* The DOMContentLoaded handler up to its first await (lines 14-23): with a
\* dataset already there it runs to its end, otherwise it waits for fetch.
DOMContentLoaded ==
    /\ phase = "start"
    /\ \/ /\ ~IsNull(globalData)
          /\ phase' = "ready"
          /\ Apply(initWith(State, globalData[1]), "init")
          /\ UNCHANGED dataFile
       \/ /\ IsNull(globalData)
          /\ phase' = "fetching"
          /\ lastEvent' = Event("fetch", TRUE)
          /\ UNCHANGED <<dataFile, globalData, currentYear, select, activeBtn, stat,
                         charts, container, liveCount, maxLive, yearlyRendered, legend>>

\* fetch and response.json() resolve: the handler resumes (lines 25-38).
FetchResolved ==
    /\ phase = "fetching"
    /\ phase' = "ready"
    /\ Apply(initWith(State, dataFile), "init")
    /\ UNCHANGED dataFile

\* fetch rejects or the response is not ok: the catch block (lines 40-43).
FetchFailed ==
    /\ phase = "fetching"
    /\ phase' = "failed"
    /\ lastEvent' = Event("initError", FALSE)
    /\ UNCHANGED <<dataFile, globalData, currentYear, select, activeBtn, stat,
                   charts, container, liveCount, maxLive, yearlyRendered, legend>>

\* A year button: filterByYear(year).
FilterByYear(year) ==
    /\ Apply(filterByYear(State, year), "filterByYear")
    /\ UNCHANGED <<dataFile, phase>>

\* The source <select> changes to another of its options:
\* updateRankingTable().
SourceSelected(source) ==
    /\ \E i \in 1..Len(select.options) : select.options[i] = source
    /\ source # select.value
    /\ Apply(updateRankingTable([State EXCEPT !.select.value = source]),
             "updateRankingTable")
    /\ UNCHANGED <<dataFile, phase>>

\* The ranking button: showRanking(this).
ShowRanking ==
    /\ Apply(showRanking(State), "showRanking")
    /\ UNCHANGED <<dataFile, phase>>

\* The heatmap button: showHeatmap(this).
ShowHeatmap ==
    /\ Apply(showHeatmap(State), "showHeatmap")
    /\ UNCHANGED <<dataFile, phase>>

Next ==
    \/ DataJsLoaded
    \/ DOMContentLoaded
    \/ FetchResolved
    \/ FetchFailed
    \/ \E year \in YearInputs : FilterByYear(year)
    \/ \E source \in SourceNames : SourceSelected(source)
    \/ ShowRanking
    \/ ShowHeatmap

Spec == Init /\ [][Next]_vars

\* ------------------------------------------------------------- formatter runs
\* The datalabels formatter of the mix and share charts (lines 337-347 and
\* 391-401, the same code) on its own: a pie chart over any data array, drawn
\* with every entry visible, whose legend entries are then clicked; the chart
\* library flips getDataVisibility(i) and redraws, which calls the formatter
\* for every label again.
PieCharts ==
    UNION {{[dataArr |-> d, visible |-> AllVisible(d),
             labels |-> DataLabels(d, AllVisible(d))] : d \in [1..n -> 0..MaxValue]} :
           n \in 1..MaxSeries}

InitFmt ==
    /\ dataFile = CHOOSE d \in Datasets : TRUE
    /\ phase = "start"
    /\ globalData = <<>>
    /\ currentYear = InitialYear
    /\ select = [options |-> <<>>, value |-> ""]
    /\ activeBtn = "ranking"
    /\ stat = [year |-> 0, total |-> Undefined]
    /\ charts = [slot \in Slots |-> NoChart]
    /\ container = Container("initial", NoTable)
    /\ liveCount = [slot \in Slots |-> 0]
    /\ maxLive = [slot \in Slots |-> 0]
    /\ yearlyRendered = FALSE
    /\ lastEvent = Event("script", TRUE)
    /\ legend \in PieCharts

LegendToggle(i) ==
    /\ i \in 1..Len(legend.dataArr)
    /\ LET visible == [legend.visible EXCEPT ![i] = ~@]
       IN  legend' = [legend EXCEPT !.visible = visible,
                                   !.labels = DataLabels(legend.dataArr, visible)]
    /\ UNCHANGED <<dataFile, phase, globalData, currentYear, select, activeBtn, stat,
                   charts, container, liveCount, maxLive, yearlyRendered, lastEvent>>

NextFmt == \E i \in 1..MaxSeries : LegendToggle(i)

SpecFmt == InitFmt /\ [][NextFmt]_vars

TypeOK ==
    /\ phase \in {"start", "fetching", "ready", "failed"}
    /\ activeBtn \in {"ranking", "heatmap", "none"}
    /\ currentYear \in YearInputs

\* ------------------------------------------------------------- properties
\* The mode of the detail view, as filterByYear reads it (lines 81-82): Heatmap
\* when the heatmap button has class 'active', Ranking otherwise.
Mode == IF activeBtn = "heatmap" THEN "Heatmap" ELSE "Ranking"

Loaded == ~IsNull(globalData)
KnownYear(year) == Loaded /\ year \in DOMAIN globalData[1].regional

\* The step is the handler of a year button, of the source select, of one of
\* the two mode buttons.
YearStep == lastEvent'.op = "filterByYear"
SourceStep == lastEvent'.op = "updateRankingTable"
ModeStep == lastEvent'.op \in {"showRanking", "showHeatmap"}

\* What the page shows: the stat figures, the charts, the detail container.
views == <<stat, charts, container>>

\* C1: a year selection with a year that has no entry in the loaded dataset's
\* regional leaves currentYear at the value it had before the call.
C1_UnknownYearKeepsCurrentYear ==
    [][\A year \in YearInputs :
          (Loaded /\ ~KnownYear(year) /\ FilterByYear(year))
              => currentYear' = currentYear]_vars

\* C2: the mode starts as Ranking, and a year selection or a source selection
\* leaves the mode as it was before the event.
C2_ModeChangesOnlyOnModeSwitch ==
    /\ Mode = "Ranking"
    /\ [][(YearStep \/ SourceStep) => Mode' = Mode]_vars

\* C2 as amended: the mode starts as Ranking; a year selection leaves the mode
\* as it was; a source selection leaves the detail view in Ranking mode
\* whatever the mode was; every change of mode happens in a mode switch or a
\* source selection.
C2_ModeKeptByYearSelection ==
    /\ Mode = "Ranking"
    /\ [][/\ YearStep => Mode' = Mode
          /\ SourceStep => Mode' = "Ranking"
          /\ Mode' # Mode => (ModeStep \/ SourceStep)]_vars

\* C2 witness: a year selection has completed while the heatmap is the mode.
C2_Witness ==
    /\ lastEvent = Event("filterByYear", TRUE)
    /\ Mode = "Heatmap"
    /\ container.kind = "heatmap"

\* C3: a year selection, source selection or mode switch handled while the
\* dataset is unset fails and changes neither currentYear nor any view.
C3_NoEffectBeforeLoad ==
    [][(~Loaded /\ (YearStep \/ SourceStep \/ ModeStep))
          => (~lastEvent'.ok /\ currentYear' = currentYear /\ views' = views)]_vars

\* C4: at most one live (created and not yet destroyed) chart instance exists
\* per slot at any time, also between the destroy and the creation inside a
\* handler.
C4_OneLiveChartPerSlot ==
    \A slot \in Slots : liveCount[slot] <= 1 /\ maxLive[slot] <= 1

\* C4 witness: the charts of the initial render have been replaced by those of
\* a later year selection.
C4_Witness ==
    /\ phase = "ready"
    /\ lastEvent = Event("filterByYear", TRUE)
    /\ \A slot \in Slots : charts[slot].kind = "chart" /\ liveCount[slot] = 1

\* The source selected after initialization according to the specification:
\* the default source when the dataset has it, otherwise sources[0].
DesignatedSource(data) ==
    IF \E i \in 1..Len(data.sources) : data.sources[i] = DefaultSource
    THEN DefaultSource ELSE data.sources[1]

\* C5: after initialization completes, currentYear is the dataset's latest_year
\* and the current source is the default source when the dataset has it,
\* otherwise sources[0].
C5_DefaultSelectionAfterInit ==
    lastEvent = Event("init", TRUE) =>
        /\ currentYear = globalData[1].latest_year
        /\ select.value = DesignatedSource(globalData[1])

\* The views a completed year selection leaves, derived from regional[year].
DetailOfYear(year) ==
    IF Mode = "Heatmap"
    THEN container = Container("heatmap", heatmapTable(globalData[1], year))
    ELSE /\ container.kind = "chartCanvas"
         /\ charts["detail"].kind = "chart"
         /\ charts["detail"].year = year
         /\ LET rd == rankingData(globalData[1], year, select.value)
            IN  /\ charts["detail"].labels = [i \in 1..Len(rd) |-> rd[i].region]
                /\ charts["detail"].data = [i \in 1..Len(rd) |-> rd[i].val]

ViewsOfYear(year) ==
    /\ stat = [year |-> year, total |-> totalGen(globalData[1], year)]
    /\ \A slot \in {"regional", "mix", "share"} :
          charts[slot].kind = "chart" /\ charts[slot].year = year
    /\ charts["mix"].data = sourceTotals(globalData[1], year)
    /\ LET rt == regionTotals(globalData[1], year)
       IN  charts["share"].data = [i \in 1..Len(rt) |-> rt[i].total]
    /\ DetailOfYear(year)

\* No view on display is of another year than the given one.
NoViewOfOtherYear(year) ==
    /\ stat.year \in {0, year}
    /\ \A slot \in {"regional", "mix", "share"} :
          charts[slot].kind = "chart" => charts[slot].year = year
    /\ container.kind = "chartCanvas" => charts["detail"].year = year
    /\ container.kind = "heatmap" => container.table.year = year

\* C6: after every completed year selection every year-dependent view (the
\* year total, the three charts, the detail view in the active mode) is derived
\* from regional[currentYear]; and while currentYear is a year of the dataset
\* no view on display is of another year.
C6_ViewsFollowCurrentYear ==
    /\ lastEvent = Event("filterByYear", TRUE) =>
          KnownYear(currentYear) /\ ViewsOfYear(currentYear)
    /\ KnownYear(currentYear) => NoViewOfOtherYear(currentYear)

\* C6 witness: a year selection has completed in heatmap mode for a year other
\* than the one the page started with.
C6_Witness ==
    /\ phase = "ready"
    /\ lastEvent = Event("filterByYear", TRUE)
    /\ currentYear # globalData[1].latest_year
    /\ container.kind = "heatmap"
    /\ container.table.year = currentYear

\* C7: for every year of the dataset the year total equals the sum of the
\* region totals of the share series and the sum of the source totals of the
\* mix series; and so do the figures a completed year selection displays.
C7_TotalsAgree ==
    /\ Loaded => \A year \in DOMAIN globalData[1].regional :
          LET rt == regionTotals(globalData[1], year)
          IN  /\ totalGen(globalData[1], year) =
                    SumSeq([i \in 1..Len(rt) |-> rt[i].total])
              /\ totalGen(globalData[1], year) =
                    SumSeq(sourceTotals(globalData[1], year))
    /\ lastEvent = Event("filterByYear", TRUE) =>
          /\ stat.total = SumSeq(charts["share"].data)
          /\ stat.total = SumSeq(charts["mix"].data)

\* C7 witness: a year selection has displayed a positive total for a year in
\* which a region record lacks the key of one of the sources.
C7_Witness ==
    /\ lastEvent = Event("filterByYear", TRUE)
    /\ stat.total > 0
    /\ \E i \in 1..Len(globalData[1].regional[currentYear]) :
          \E k \in 1..Len(globalData[1].sources) :
             globalData[1].sources[k] \notin
                DOMAIN globalData[1].regional[currentYear][i].cells

\* C8: the percentage is 0 for every visible data point when the sum of the
\* visible data points is 0.
C8_ZeroWhenVisibleSumIsZero ==
    VisibleSum(legend.dataArr, legend.visible) = 0 =>
        \A i \in 1..Len(legend.dataArr) :
            legend.visible[i] =>
                legend.labels[i].pct = [kind |-> "number", tenths |-> 0]

\* The largest cell of the region x source grid of a year (0 for a grid
\* without a positive cell).
GridMax(data, year) ==
    LET cells == {0} \cup {Get(data.regional[year][i], data.sources[k]) :
                            i \in 1..Len(data.regional[year]),
                            k \in 1..Len(data.sources)}
    IN  CHOOSE m \in cells : \A c \in cells : c <= m

\* C9: the scale maximum of a heatmap on display is the largest cell of the
\* grid of the heatmap's year, and after every handler that completed that
\* year is currentYear.
C9_HeatmapScaleOfCurrentYear ==
    container.kind = "heatmap" =>
        /\ Loaded
        /\ container.table.maxVal = GridMax(globalData[1], container.table.year)
        /\ lastEvent.ok => container.table.year = currentYear

\* C9 witness: a year selection has rendered the heatmap of a year whose
\* maximum is below the maximum of another year.
C9_Witness ==
    /\ lastEvent = Event("filterByYear", TRUE)
    /\ container.kind = "heatmap"
    /\ \E year \in DOMAIN globalData[1].regional :
          GridMax(globalData[1], year) > container.table.maxVal

\* C10: the dataset in window.globalData is the dataset that was loaded: the
\* order of the region records of every year and every cell are as loaded.
C10_DatasetUnchanged == Loaded => globalData[1] = dataFile

\* C10 witness: a year selection has ranked the regions of a year in another
\* order than the dataset has them.
C10_Witness ==
    /\ lastEvent = Event("filterByYear", TRUE)
    /\ charts["regional"].labels #
          [i \in 1..Len(dataFile.regional[currentYear]) |->
              dataFile.regional[currentYear][i].region]
====
